---- MODULE Spec2Model ----
(***************************************************************************)
(* A model of the jenny service toolkit vendored by jennyservices/shorter: *)
(* the scope guard of package auth, the per-operation middleware pipeline  *)
(* of package options, and the media-type negotiation of packages mime and *)
(* encoders.                                                               *)
(*                                                                         *)
(* Go maps are functions whose DOMAIN is the set of keys present.  A Go    *)
(* `range` over a map visits the keys in an unspecified order: every such  *)
(* loop whose result depends on the order takes the order as an argument,  *)
(* and the action that runs it draws the order with \E.                    *)
(* Weights (float64 q values) are counted in tenths: 1.0 is 10.            *)
(***************************************************************************)
EXTENDS Integers, Sequences, FiniteSets, TLC

VARIABLES
    scopes,       \* auth: the argument of RequireScopes, fixed when the guard is built
    x,            \* auth: the map RequireScopes allocates once and its closure captures
    opts,         \* options: the Options fields kf, sm, cf, userFunc, scopesFunc (set or nil)
    middlewares,  \* options: Options.middlewares, operation -> stack (bottom first)
    registered,   \* history: per operation, the extras in the order they were registered
    accepts,      \* negotiation: the operation's accepted types, a []mime.Type
    clientGraph,  \* negotiation: the mime.Types held in the request context
    encoders,     \* negotiation: the package-level encoder registry
    decoders,     \* negotiation: the package-level decoder registry
    header,       \* negotiation: the media ranges of the request's Accept or Content-Type header
    reqctx,       \* auth: the entries of the request's context.Context that the stages read and write
    inflight,     \* auth: the requests inside the guard's closure, each at its statement
    ret           \* what the last call returned, with the arguments it was given

vars == <<scopes, x, opts, middlewares, registered, accepts, clientGraph, encoders, decoders, header, reqctx, inflight, ret>>

\* ------------------------------------------------------------------ bounds

MaxRequired == 2
MaxGranted == 2
MaxExtras == 2
MaxAccepts == 2
MaxClientEntries == 2
MaxRanges == 2
MaxRequests == 2

\* ------------------------------------------------------------- Go helpers

Range(s) == {s[i] : i \in 1..Len(s)}

SeqsUpTo(S, n) == UNION {[1..k -> S] : k \in 0..n}

\* The orders in which a `range` can visit the keys in S.
Perms(S) ==
    {p \in [1..Cardinality(S) -> S] : \A i, j \in 1..Cardinality(S) : i # j => p[i] # p[j]}

EmptyMap == [k \in {} |-> 0]

\* m[k] = v
SetKey(m, k, v) == [j \in DOMAIN m \cup {k} |-> IF j = k THEN v ELSE m[j]]

\* The strings the model compares, in byte order.
StrOrder ==
    <<"*", "admin", "application", "html", "json", "octet-stream", "plain", "read",
      "text", "vnd", "write", "x-www-form-urlencoded", "xml">>

StrRank == [s \in Range(StrOrder) |-> CHOOSE i \in 1..Len(StrOrder) : StrOrder[i] = s]

\* strings.Compare
StrCompare(a, b) ==
    IF a = b THEN 0 ELSE IF StrRank[a] < StrRank[b] THEN -1 ELSE 1

\* ------------------------------------------------------------------- auth

ScopeNames == {"admin", "read", "write"}

\* ctx.Value(ScopesContextKey).([]string): the value and whether it is there.
CtxScopes ==
    {[ok |-> FALSE, val |-> <<>>]} \cup {[ok |-> TRUE, val |-> s] : s \in SeqsUpTo(ScopeNames, MaxGranted)}

\* RequireScopes, before the closure: x[scope] = false for every required scope.
NewCheckList(required) == [s \in Range(required) |-> FALSE]

\* for _, scope := range scopes { checkList[scope] = true }
RECURSIVE MarkGranted(_, _)
MarkGranted(checkList, granted) ==
    IF granted = <<>> THEN checkList
    ELSE MarkGranted(SetKey(checkList, Head(granted), TRUE), Tail(granted))

\* The endpoint RequireScopes returns, on one request.  checkList := x copies
\* the map header, not the map, so the writes land in x; iter is the order in
\* which the range over checkList visits its keys.
GuardEndpoint(x0, ctx, iter) ==
    LET granted == IF ctx.ok THEN ctx.val ELSE <<>>
        checkList == MarkGranted(x0, granted)
        hasAccess == \A k \in DOMAIN checkList : checkList[k]
        missingScopes == iter
    IN  [x |-> checkList,
         hasAccess |-> hasAccess,
         missingScopes |-> IF hasAccess THEN <<>> ELSE missingScopes,
         nextCalls |-> IF hasAccess THEN 1 ELSE 0]

InitAuth ==
    /\ scopes \in SeqsUpTo(ScopeNames, MaxRequired)
    /\ x = NewCheckList(scopes)

\* One request through the guard.
Guard ==
    \E ctx \in CtxScopes :
        \E iter \in Perms(DOMAIN MarkGranted(x, IF ctx.ok THEN ctx.val ELSE <<>>)) :
            LET r == GuardEndpoint(x, ctx, iter)
            IN  /\ x' = r.x
                /\ ret' = [op |-> "RequireScopes", ctx |-> ctx, hasAccess |-> r.hasAccess,
                           missingScopes |-> r.missingScopes, nextCalls |-> r.nextCalls]
                /\ UNCHANGED <<scopes, opts, middlewares, registered, accepts, clientGraph, encoders, decoders, header, reqctx, inflight>>

\* ------------------------------------------------------ concurrent guard

\* The requests that go through one guard, each on its own goroutine.
Requests == 1..MaxRequests

\* A request that has not entered the closure.
NotEntered ==
    [pc |-> "idle", ctx |-> [ok |-> FALSE, val |-> <<>>], scopes |-> <<>>,
     must |-> {}, visited |-> {}, hasAccess |-> TRUE, accepted |-> FALSE]

\* No request in the closure; writing holds the requests inside a map
\* assignment, fatal whether the runtime has stopped the process.
NoRequests == [req |-> [r \in Requests |-> NotEntered], writing |-> {}, fatal |-> FALSE]

\* The contexts of the requests: without scopes, or with some granted.
InflightScopes == {"read", "write"}
InflightCtx ==
    {[ok |-> FALSE, val |-> <<>>]} \cup
    {[ok |-> TRUE, val |-> s] : s \in SeqsUpTo(InflightScopes, MaxGranted)}

InitInflight ==
    /\ scopes \in SeqsUpTo(InflightScopes, MaxRequired)
    /\ x = NewCheckList(scopes)
    /\ inflight = NoRequests

\* What an access of the map can do while another goroutine is inside an
\* assignment to it: the runtime stops the process with "concurrent map
\* writes" or "concurrent map read and map write", or the access goes on.
Fatal(others) == IF others = {} THEN {FALSE} ELSE {FALSE, TRUE}

\* What a read of checkList[k] can give: the value in the map, or true when
\* an assignment to that key is under way.
ReadOf(checkList, k, req, writing) ==
    {checkList[k]} \cup {TRUE : w \in {v \in writing : Head(req[v].scopes) = k}}

\* scopes, ok := ctx.Value(ScopesContextKey).([]string); checkList := x
Enter(r) ==
    /\ ~inflight.fatal
    /\ inflight.req[r].pc = "idle"
    /\ \E ctx \in InflightCtx :
        inflight' = [inflight EXCEPT !.req[r] =
                        [NotEntered EXCEPT !.pc = "mark", !.ctx = ctx,
                                           !.scopes = IF ctx.ok THEN ctx.val ELSE <<>>]]
    /\ UNCHANGED <<scopes, x, opts, middlewares, registered, accepts, clientGraph, encoders, decoders, header, reqctx, ret>>

\* checkList[scope] = true, entered: the map is being written.
AssignBegin(r) ==
    /\ ~inflight.fatal
    /\ inflight.req[r].pc = "mark"
    /\ inflight.req[r].scopes # <<>>
    /\ \E fatal \in Fatal(inflight.writing) :
        inflight' = [inflight EXCEPT !.req[r].pc = "assign", !.writing = @ \cup {r}, !.fatal = fatal]
    /\ UNCHANGED <<scopes, x, opts, middlewares, registered, accepts, clientGraph, encoders, decoders, header, reqctx, ret>>

\* checkList[scope] = true, done: the write is in x, the map the closure captured.
AssignEnd(r) ==
    /\ ~inflight.fatal
    /\ inflight.req[r].pc = "assign"
    /\ x' = SetKey(x, Head(inflight.req[r].scopes), TRUE)
    /\ inflight' = [inflight EXCEPT !.req[r].pc = "mark", !.req[r].scopes = Tail(@),
                                    !.writing = @ \ {r}]
    /\ UNCHANGED <<scopes, opts, middlewares, registered, accepts, clientGraph, encoders, decoders, header, reqctx, ret>>

\* hasAccess := true; the range over checkList starts: it visits every key
\* the map has now.
RangeBegin(r) ==
    /\ ~inflight.fatal
    /\ inflight.req[r].pc = "mark"
    /\ inflight.req[r].scopes = <<>>
    /\ inflight' = [inflight EXCEPT !.req[r].pc = "range", !.req[r].must = DOMAIN x]
    /\ UNCHANGED <<scopes, x, opts, middlewares, registered, accepts, clientGraph, encoders, decoders, header, reqctx, ret>>

\* hasAccess = hasAccess && checked, for the key the range gives next.
RangeNext(r) ==
    /\ ~inflight.fatal
    /\ inflight.req[r].pc = "range"
    /\ \E k \in DOMAIN x \ inflight.req[r].visited :
        \E checked \in ReadOf(x, k, inflight.req, inflight.writing), fatal \in Fatal(inflight.writing) :
            inflight' = [inflight EXCEPT !.req[r].visited = @ \cup {k},
                                        !.req[r].hasAccess = @ /\ checked,
                                        !.fatal = fatal]
    /\ UNCHANGED <<scopes, x, opts, middlewares, registered, accepts, clientGraph, encoders, decoders, header, reqctx, ret>>

\* The range is over, a key created meanwhile visited or not; then
\* if !hasAccess { return nil, err }; return next(ctx, request).
RangeEnd(r) ==
    /\ ~inflight.fatal
    /\ inflight.req[r].pc = "range"
    /\ inflight.req[r].must \subseteq inflight.req[r].visited
    /\ inflight' = [inflight EXCEPT !.req[r].pc = "done", !.req[r].accepted = inflight.req[r].hasAccess]
    /\ UNCHANGED <<scopes, x, opts, middlewares, registered, accepts, clientGraph, encoders, decoders, header, reqctx, ret>>

\* ---------------------------------------------------------- request state

\* The operations of the service.
Operations == {"shorten", "expand"}

\* What the context can hold under kitjwt.JWTClaimsContextKey: nothing, a
\* stdjwt.Claims value (a MapClaims or another implementation), or a
\* *stdjwt.Token, whose Claims field is of the type inner.  claims names the
\* payload.
ClaimsTypes == {"MapClaims", "StandardClaims"}
Payloads == {"alice"}
NoValue == [kind |-> "none", inner |-> "", claims |-> ""]
ClaimsValue(type, payload) == [kind |-> type, inner |-> "", claims |-> payload]
TokenValue(type, payload) == [kind |-> "Token", inner |-> type, claims |-> payload]

\* context.Background(), seen through the four keys the stages use:
\* kitjwt.JWTTokenContextKey, kitjwt.JWTClaimsContextKey, UserContextKey and
\* ScopesContextKey.
Background ==
    [token |-> [ok |-> FALSE, val |-> ""],
     claims |-> NoValue,
     user |-> [ok |-> FALSE, val |-> ""],
     scopes |-> [ok |-> FALSE, val |-> <<>>]]

\* The token strings a request can carry: one that verifies, one that parses
\* but does not validate, and one that is not a token at all.
TokenStrings == {"good", "expired", "garbage"}

\* stdjwt.ParseWithClaims(tokenString, newClaims(), keyFunc): whether a *Token
\* came back, its Valid field, its Claims, and whether err is set.  A string
\* that is not three segments gives a nil token.
ParseWithClaims(tokenString, newClaims) ==
    CASE tokenString = "good" ->
           [tok |-> TRUE, valid |-> TRUE, err |-> FALSE, claims |-> ClaimsValue(newClaims, "alice")]
      [] tokenString = "expired" ->
           [tok |-> TRUE, valid |-> FALSE, err |-> TRUE, claims |-> ClaimsValue(newClaims, "alice")]
      [] OTHER ->
           [tok |-> FALSE, valid |-> FALSE, err |-> TRUE, claims |-> NoValue]

\* What a stage does with the request: it hands a context to next, as many
\* times as next holds contexts, or it panics.
Pass(ctx) == [fault |-> FALSE, next |-> <<ctx>>]
Panic == [fault |-> TRUE, next |-> <<>>]

\* What a stage whose every path ends in `return next(ctx, request)` returns,
\* h being what next returned.
Returned(stage, h) == IF stage.fault THEN [response |-> "nil", err |-> "panic"] ELSE h

\* JWTToContext after the parse: token.Valid is read whatever err is.
JWTParsed(ctx, parsed) ==
    IF ~parsed.tok THEN Panic
    ELSE IF ~parsed.valid THEN Pass(ctx)
    ELSE Pass([ctx EXCEPT !.claims = parsed.claims])

\* The endpoint JWTToContext returns, on one request; newClaims is the type
\* the claims factory makes.
JWTToContext(ctx, newClaims) ==
    IF ~ctx.token.ok THEN Pass(ctx)
    ELSE JWTParsed(ctx, ParseWithClaims(ctx.token.val, newClaims))

\* A user extractor that stops the request when it fails.
UserToContextFailClosed(ctx, extracted) ==
    IF ctx.claims.kind \in ClaimsTypes /\ ~extracted.ok THEN [fault |-> FALSE, next |-> <<>>]
    ELSE Pass(ctx)

\* The endpoint UserToContext returns, on one request; extracted is what
\* claimsUser returns when it is called.
UserToContext(ctx, extracted) ==
    IF ctx.claims.kind \in ClaimsTypes /\ extracted.ok
    THEN Pass([ctx EXCEPT !.user = [ok |-> TRUE, val |-> extracted.val]])
    ELSE Pass(ctx)

\* The endpoint ScopesToContext returns, on one request; extracted is what
\* claimsScopes returns when it is called.
ScopesToContext(ctx, extracted) ==
    IF ctx.claims.kind = "Token" /\ ctx.claims.inner = "MapClaims" /\ extracted.ok
    THEN Pass([ctx EXCEPT !.scopes = [ok |-> TRUE, val |-> extracted.val]])
    ELSE Pass(ctx)

\* Whether UserToContext and ScopesToContext get to call their extractor.
CallsClaimsUser(ctx) == ctx.claims.kind \in ClaimsTypes
CallsClaimsScopes(ctx) == ctx.claims.kind = "Token" /\ ctx.claims.inner = "MapClaims"

\* The endpoint ErrorReporter returns, on one request: the arguments of the
\* deferred Report are evaluated at the defer statement, where err is still
\* nil; h is what next returned.
ErrorReporter(ctx, op, h) ==
    [next |-> <<ctx>>, reports |-> <<[err |-> "nil", op |-> op]>>, response |-> h.response, err |-> h.err]

\* What the extractors and the handler can return.
UserOutcomes == {[ok |-> FALSE, val |-> ""]} \cup {[ok |-> TRUE, val |-> u] : u \in Payloads}
ScopesOutcomes ==
    {[ok |-> FALSE, val |-> <<>>]} \cup {[ok |-> TRUE, val |-> s] : s \in SeqsUpTo(ScopeNames, MaxGranted)}
HandlerResults ==
    {[response |-> "created", err |-> "nil"], [response |-> "nil", err |-> "not found"],
     [response |-> "partial", err |-> "timeout"]}

\* The contexts a stage can be handed: with or without a token string, and
\* with whatever an earlier stage put under the claims, user and scopes keys.
Contexts ==
    {[token |-> t, claims |-> c, user |-> u, scopes |-> sc] :
        t \in {[ok |-> FALSE, val |-> ""]} \cup {[ok |-> TRUE, val |-> ts] : ts \in TokenStrings},
        c \in {NoValue} \cup {ClaimsValue(ty, pl) : ty \in ClaimsTypes, pl \in Payloads}
                       \cup {TokenValue(ty, pl) : ty \in ClaimsTypes, pl \in Payloads},
        u \in {[ok |-> FALSE, val |-> ""]},
        sc \in {[ok |-> FALSE, val |-> <<>>], [ok |-> TRUE, val |-> <<"read">>]}}

InitStages == reqctx \in Contexts

\* One request through the endpoint of JWTToContext.
RunJWTToContext ==
    /\ \E newClaims \in ClaimsTypes, h \in HandlerResults :
        \E st \in {JWTToContext(reqctx, newClaims)} :
            ret' = [op |-> "JWTToContext", fault |-> st.fault, next |-> st.next,
                    parsed |-> ParseWithClaims(reqctx.token.val, newClaims),
                    handler |-> h, returned |-> Returned(st, h)]
    /\ UNCHANGED <<scopes, x, opts, middlewares, registered, accepts, clientGraph, encoders, decoders, header, reqctx, inflight>>

\* One request through the endpoint of UserToContext.
RunUserToContext ==
    /\ \E extracted \in UserOutcomes, h \in HandlerResults :
        \E st \in {UserToContext(reqctx, extracted)} :
            ret' = [op |-> "UserToContext", fault |-> st.fault, next |-> st.next,
                    called |-> CallsClaimsUser(reqctx), extracted |-> extracted,
                    handler |-> h, returned |-> Returned(st, h)]
    /\ UNCHANGED <<scopes, x, opts, middlewares, registered, accepts, clientGraph, encoders, decoders, header, reqctx, inflight>>

\* One request through the endpoint of ScopesToContext.
RunScopesToContext ==
    /\ \E extracted \in ScopesOutcomes, h \in HandlerResults :
        \E st \in {ScopesToContext(reqctx, extracted)} :
            ret' = [op |-> "ScopesToContext", fault |-> st.fault, next |-> st.next,
                    called |-> CallsClaimsScopes(reqctx), extracted |-> extracted,
                    handler |-> h, returned |-> Returned(st, h)]
    /\ UNCHANGED <<scopes, x, opts, middlewares, registered, accepts, clientGraph, encoders, decoders, header, reqctx, inflight>>

\* One request through the endpoint of ErrorReporter.
RunErrorReporter ==
    /\ \E operation \in Operations, h \in HandlerResults :
        \E st \in {ErrorReporter(reqctx, operation, h)} :
            ret' = [op |-> "ErrorReporter", operation |-> operation, next |-> st.next,
                    reports |-> st.reports, handler |-> h,
                    returned |-> [response |-> st.response, err |-> st.err]]
    /\ UNCHANGED <<scopes, x, opts, middlewares, registered, accepts, clientGraph, encoders, decoders, header, reqctx, inflight>>

\* ---------------------------------------------------------------- options

\* An endpoint.Middleware is modelled by the stages a request enters, outermost
\* first; a stage is named after the constructor that built it.
Extras == {<<"M1">>, <<"M2">>}

\* endpoint.Chain(outer, other): outer(other(next)).
Chain(outer, other) == outer \o other

\* stack.Stack of golang-collections: a sequence, bottom first.
Push(st, v) == Append(st, v)
Top(st) == st[Len(st)]
Popped(st) == SubSeq(st, 1, Len(st) - 1)

\* options.New
NewOptions == [kf |-> FALSE, sm |-> FALSE, cf |-> FALSE, userFunc |-> FALSE, scopesFunc |-> FALSE]

\* The pushes of OpMiddlewares, in the order of the code.
PushBuiltins(m, st) ==
    LET s1 == IF m.scopesFunc THEN Push(st, <<"ScopesToContext">>) ELSE st
        s2 == IF m.userFunc THEN Push(s1, <<"UserToContext">>) ELSE s1
        s3 == IF m.kf /\ m.sm /\ m.cf THEN Push(s2, <<"JWTToContext">>) ELSE s2
        s4 == Push(s3, <<"TraceClient">>)
    IN  Push(s4, <<"ErrorReporter">>)

\* for i := operationStack.Len(); i > 0; i-- { mware = endpoint.Chain(mware, operationStack.Pop()) }
RECURSIVE ChainAll(_, _)
ChainAll(mware, st) ==
    IF Len(st) = 0 THEN mware ELSE ChainAll(Chain(mware, Top(st)), Popped(st))

\* Options.OpMiddlewares: the middleware returned, and Options.middlewares
\* after the call.  The stack registered for the operation is the one pushed
\* to and popped from; an operation with no entry gets a fresh stack that is
\* not stored.
OpMiddlewares(m, mws, operation) ==
    LET operationStack == IF operation \in DOMAIN mws THEN mws[operation] ELSE <<>>
        pushed == PushBuiltins(m, operationStack)
        mware == ChainAll(Top(pushed), Popped(pushed))
    IN  [mware |-> mware,
         middlewares |-> IF operation \in DOMAIN mws THEN SetKey(mws, operation, <<>>) ELSE mws]

\* for _, mw := range middlewares { m.middlewares[op].Push(mw) }
RECURSIVE PushAll(_, _)
PushAll(st, list) ==
    IF list = <<>> THEN st ELSE PushAll(Push(st, Head(list)), Tail(list))

\* Options.RegisterMiddleware
RegisterMiddleware(mws, op, list) ==
    LET made == IF op \in DOMAIN mws THEN mws ELSE SetKey(mws, op, <<>>)
    IN  SetKey(made, op, PushAll(made[op], list))

InitOptions ==
    /\ opts = NewOptions
    /\ middlewares = EmptyMap
    /\ registered = [o \in Operations |-> <<>>]

\* options.WithJWTParser; an argument is TRUE when it is not nil.
WithJWTParser ==
    \E keyFunc, method, claimsFactory \in BOOLEAN :
        /\ opts' = [opts EXCEPT !.kf = keyFunc, !.sm = method, !.cf = claimsFactory]
        /\ ret' = [op |-> "WithJWTParser"]
        /\ UNCHANGED <<scopes, x, middlewares, registered, accepts, clientGraph, encoders, decoders, header, reqctx, inflight>>

\* options.WithUserParser
WithUserParser ==
    \E userFunc \in BOOLEAN :
        /\ opts' = [opts EXCEPT !.userFunc = userFunc]
        /\ ret' = [op |-> "WithUserParser"]
        /\ UNCHANGED <<scopes, x, middlewares, registered, accepts, clientGraph, encoders, decoders, header, reqctx, inflight>>

\* options.WithScopesParser
WithScopesParser ==
    \E scopesFunc \in BOOLEAN :
        /\ opts' = [opts EXCEPT !.scopesFunc = scopesFunc]
        /\ ret' = [op |-> "WithScopesParser"]
        /\ UNCHANGED <<scopes, x, middlewares, registered, accepts, clientGraph, encoders, decoders, header, reqctx, inflight>>

\* A call of Options.RegisterMiddleware; the history keeps what was registered.
Register ==
    \E op \in Operations : \E list \in SeqsUpTo(Extras, MaxExtras) :
        /\ Len(registered[op]) + Len(list) <= MaxExtras
        /\ middlewares' = RegisterMiddleware(middlewares, op, list)
        /\ registered' = [registered EXCEPT ![op] = @ \o list]
        /\ ret' = [op |-> "RegisterMiddleware"]
        /\ UNCHANGED <<scopes, x, opts, accepts, clientGraph, encoders, decoders, header, reqctx, inflight>>

\* A call of Options.OpMiddlewares.
Build ==
    \E operation \in Operations :
        LET r == OpMiddlewares(opts, middlewares, operation)
        IN  /\ middlewares' = r.middlewares
            /\ ret' = [op |-> "OpMiddlewares", operation |-> operation, mware |-> r.mware]
            /\ UNCHANGED <<scopes, x, opts, registered, accepts, clientGraph, encoders, decoders, header, reqctx, inflight>>

\* ------------------------------------------------------------------- mime

\* const wildcard
Wildcard == "*"

\* Aggregate gives every server type the weight 1.
One == 10

\* A mime.Type "group/a+b" is its group and the parts of its subtype between
\* the + signs: path.Split on the last slash, strings.Split on "+".
MkType(group, sub) == [group |-> group, parts |-> <<sub>>]

\* Type.Group
Group(t) == t.group

\* Type.SubGroup, of a type whose subtype has no + (all that Walk produces).
SubGroup(t) == t.parts[1]

TextPlain == MkType("text", "plain")
ApplicationJSON == MkType("application", "json")
ApplicationXML == MkType("application", "xml")
ApplicationOctet == MkType("application", "octet-stream")
ApplicationFormURLEncoded == MkType("application", "x-www-form-urlencoded")

\* A type with a structured suffix, application/vnd+json.
VndJSON == [group |-> "application", parts |-> <<"vnd", "json">>]

\* Type("")
EmptyType == MkType("", "")

\* g[group][sub] = q, making g[group] when it is nil.
Put(g, group, sub, q) ==
    SetKey(g, group, SetKey(IF group \in DOMAIN g THEN g[group] ELSE EmptyMap, sub, q))

\* A subtype taken whole up to its first +.
PutFirstPart(g, group, parts, q) == Put(g, group, Head(parts), q)

\* for _, subType := range strings.Split(subgroup, "+") { g[group][subType] = 1 }
RECURSIVE PutParts(_, _, _, _)
PutParts(g, group, parts, q) ==
    IF parts = <<>> THEN g ELSE PutParts(Put(g, group, Head(parts), q), group, Tail(parts), q)

\* mime.Aggregate
RECURSIVE AggregateInto(_, _)
AggregateInto(g, list) ==
    IF list = <<>> THEN g
    ELSE AggregateInto(PutParts(g, Head(list).group, Head(list).parts, One), Tail(list))

Aggregate(list) == AggregateInto(EmptyMap, list)

\* header.ParseAccept on a header whose media ranges are h: the Value of each
\* range and its Q, which is 1.0 when the range has no q parameter.
ParseAccept(h) ==
    [i \in 1..Len(h) |-> [Value |-> h[i].type, Q |-> IF h[i].hasQ THEN h[i].q ELSE One]]

\* The loop of RequestTypes: path.Split and strings.Trim give the group,
\* strings.Split(subgroup, "+") the parts, and every part gets the weight v.Q.
RECURSIVE RequestTypesInto(_, _)
RequestTypesInto(g, specs) ==
    IF specs = <<>> THEN g
    ELSE RequestTypesInto(PutParts(g, Head(specs).Value.group, Head(specs).Value.parts, Head(specs).Q),
                          Tail(specs))

\* mime.RequestTypes, of a request whose Accept header is h.
RequestTypes(h) == RequestTypesInto(EmptyMap, ParseAccept(h))

\* mime.NewTypes
NewTypes(h) == RequestTypes(h)

\* The (group, subtype) pairs of a graph, and membership.
Entries(t) == UNION {{<<g, s>> : s \in DOMAIN t[g]} : g \in DOMAIN t}
Has(t, group, sub) == group \in DOMAIN t /\ sub \in DOMAIN t[group]

NoError == [kind |-> "nil", type |-> EmptyType]

\* The slices Walk can append for one group: its subtypes in every order.
GroupSlices(t, typ) ==
    {[i \in 1..Len(p) |-> [typ |-> typ, subTyp |-> p[i], q |-> t[typ][p[i]]]] :
        p \in Perms(DOMAIN t[typ])}

\* The slices Walk can build when the outer range visits the groups in groupOrder.
RECURSIVE Slices(_, _)
Slices(t, groupOrder) ==
    IF groupOrder = <<>> THEN {<<>>}
    ELSE {head \o rest : head \in GroupSlices(t, Head(groupOrder)),
                         rest \in Slices(t, Tail(groupOrder))}

\* Every slice the two nested ranges of Walk can build from t.
RangeOrders(t) == UNION {Slices(t, groupOrder) : groupOrder \in Perms(DOMAIN t)}

\* The slices of the walk Intersect(a, b) makes over a: none without */* in b.
ExpandOrders(a, b) == IF Has(b, Wildcard, Wildcard) THEN RangeOrders(a) ELSE {<<>>}

\* The less function Walk hands to sort.Slice.
Less(a, b) ==
    \/ a.q > b.q
    \/ StrCompare(a.typ, b.typ) + StrCompare(a.subTyp, b.subTyp) > 0

Swap(data, i, j) == [data EXCEPT ![i] = data[j], ![j] = data[i]]

\* for j := i; j > a && less(j, j-1); j-- { swap(j, j-1) }
RECURSIVE SiftDown(_, _)
SiftDown(data, j) ==
    IF j > 1 /\ Less(data[j], data[j - 1]) THEN SiftDown(Swap(data, j, j - 1), j - 1) ELSE data

RECURSIVE InsertionSortFrom(_, _)
InsertionSortFrom(data, i) ==
    IF i > Len(data) THEN data ELSE InsertionSortFrom(SiftDown(data, i), i + 1)

\* sort.Slice on a slice of at most 6 elements is an insertion sort (longer
\* slices get a shell pass or a quicksort first); the model's graphs stay below.
SortSlice(data) == InsertionSortFrom(data, 2)

\* The WalkFunc literal of Intersect, which captured b and q: it writes the
\* type into b at weight q and returns nil.
ExpandFunc(q, st, m) == [st |-> Put(st, Group(m), SubGroup(m), q), err |-> NoError]

\* The WalkFunc literal of ResponseEncoder, which captured newEnc and mimeType:
\* nothing once an encoder is found, else the encoder of s, else an error.
EncoderFunc(encs, st, s) ==
    IF st.newEnc # "nil" THEN [st |-> st, err |-> NoError]
    ELSE IF s \in DOMAIN encs
         THEN [st |-> [newEnc |-> encs[s], mimeType |-> s], err |-> NoError]
         ELSE [st |-> st, err |-> [kind |-> "isn't a registered encoder", type |-> s]]

\* The WalkFunc literal of ResponseDecoder and RequestDecoder, which captured
\* dec: the decoder of s when there is one, also when dec is already set, else
\* an error.
DecoderFunc(decs, st, s) ==
    IF s \in DOMAIN decs THEN [st |-> decs[s], err |-> NoError]
    ELSE [st |-> st, err |-> [kind |-> "isn't a registered decoder", type |-> s]]

\* A WalkFunc that appends its argument to a list and returns nil.
RecordFunc(st, s) == [st |-> Append(st, s), err |-> NoError]

\* A call of the WalkFunc wf, a closure: which literal it is and what it
\* captured by value; st is what it captured by reference.
CallWalkFunc(wf, st, s) ==
    CASE wf.fn = "Intersect" -> ExpandFunc(wf.q, st, s)
      [] wf.fn = "ResponseEncoder" -> EncoderFunc(wf.encs, st, s)
      [] wf.fn = "Decoder" -> DecoderFunc(wf.decs, st, s)
      [] wf.fn = "record" -> RecordFunc(st, s)

\* fmt.Sprintf("%s/%s", typ.typ, typ.subTyp) for every element of the slice.
TypesOf(specs) == [i \in 1..Len(specs) |-> MkType(specs[i].typ, specs[i].subTyp)]

\* The loop of Walk after the call of wf on element i returned r.
Called(r, i) == [st |-> r.st, err |-> r.err, n |-> i]

\* The loop of Walk over the sorted slice, from element i: wf on each type
\* until it returns an error.
RECURSIVE WalkLoop(_, _, _, _)
WalkLoop(types, wf, acc, i) ==
    IF i > Len(types) \/ acc.err # NoError THEN acc
    ELSE WalkLoop(types, wf, Called(CallWalkFunc(wf, acc.st, types[i]), i), i + 1)

\* What Walk returns and leaves behind: the sorted slice as types, the types
\* handed to wf, the state wf captured, and the error.
Walked(types, last) ==
    [types |-> types, visited |-> SubSeq(types, 1, last.n), st |-> last.st, err |-> last.err]

\* Walk once the slice is sorted.
WalkSorted(types, wf, st0) ==
    Walked(types, WalkLoop(types, wf, [st |-> st0, err |-> NoError, n |-> 0], 1))

\* Types.Walk, from the slice its ranges built: sort, then call wf on each type
\* until it returns an error.
Walk(unsorted, wf, st0) == WalkSorted(TypesOf(SortSlice(unsorted)), wf, st0)

\* Matched without the group wildcard: only the subtypes b names are kept.
MatchedExactOnly(a, b, group) ==
    {subgroup \in DOMAIN a[group] : subgroup \in DOMAIN b[group]}

\* The matching loop of Intersect for one group of a: the subtypes kept.
Matched(a, b, group) ==
    {subgroup \in DOMAIN a[group] : subgroup \in DOMAIN b[group] \/ Wildcard \in DOMAIN b[group]}

\* The second loop of Intersect, over a, with b as the first loop left it: the
\* graph returned as g, and b.  q is b[group][subgroup], which is the zero value
\* when the key is absent and the group only matched through its wildcard.
Intersected(a, b) ==
    [g |-> [group \in {gr \in DOMAIN a \cap DOMAIN b : Matched(a, b, gr) # {}} |->
               [subgroup \in Matched(a, b, group) |->
                   IF subgroup \in DOMAIN b[group] THEN b[group][subgroup] ELSE 0]],
     b |-> b]

\* mime.Intersect: the graph returned as g, and b as the call leaves it.  With
\* a */* entry in b, the walk over a writes every entry of a into b itself.
Intersect(a, b, iterA) ==
    Intersected(a, IF Has(b, Wildcard, Wildcard)
                   THEN Walk(iterA, [fn |-> "Intersect", q |-> b[Wildcard][Wildcard]], b).st
                   ELSE b)

\* ---------------------------------------------------------------- encoders

\* var encoders
DefaultEncoders ==
    [s \in {ApplicationJSON, ApplicationXML, TextPlain, ApplicationFormURLEncoded, ApplicationOctet} |->
        CASE s = ApplicationJSON -> "JSONEncoder"
          [] s = ApplicationXML -> "XMLEncoder"
          [] s = TextPlain -> "TextEncoder"
          [] s = ApplicationFormURLEncoded -> "FormEncoder"
          [] s = ApplicationOctet -> "ByteEncoder"]

\* A lookup that sees only the built-in bindings.
LookupBuiltin(encs, s) == IF s \in DOMAIN DefaultEncoders THEN DefaultEncoders[s] ELSE "nil"

\* encoders[s] of a return value: nil when s has no entry.
Lookup(encs, s) == IF s \in DOMAIN encs THEN encs[s] ELSE "nil"

\* if len(available) < 1 { available = serverGraph }
Available(serverGraph, available) ==
    IF Cardinality(DOMAIN available) < 1 THEN serverGraph ELSE available

\* The graph ResponseEncoder walks, for the order iterA of Intersect's walk.
Candidates(ctx, list, iterA) ==
    IF ~ctx.ok THEN EmptyMap
    ELSE Available(Aggregate(list), Intersect(Aggregate(list), ctx.val, iterA).g)

\* The end of ResponseEncoder, after the walk w over the candidates; b is the
\* client graph as Intersect left it.
Resolved(encs, w, b) ==
    IF w.err # NoError
    THEN [newEnc |-> "nil", mimeType |-> EmptyType, err |-> w.err, types |-> w.types, b |-> b]
    ELSE IF w.st.newEnc = "nil" \/ w.st.mimeType = EmptyType
    THEN [newEnc |-> Lookup(encs, ApplicationOctet), mimeType |-> ApplicationOctet,
          err |-> NoError, types |-> w.types, b |-> b]
    ELSE [newEnc |-> w.st.newEnc, mimeType |-> w.st.mimeType, err |-> NoError,
          types |-> w.types, b |-> b]

\* encoders.ResponseEncoder.  ctx is the ContextKeyAccepts entry of the context
\* (jennyhttp.ContextAccepts fails when it is not there); iterA is the order of
\* the walk of Intersect and iterB the slice built from the candidates.  b is
\* the client graph as the call leaves it.
ResponseEncoder(ctx, list, encs, iterA, iterB) ==
    IF ~ctx.ok
    THEN [newEnc |-> "nil", mimeType |-> EmptyType,
          err |-> [kind |-> "response encoder: can't find accepts in header", type |-> EmptyType],
          types |-> <<>>, b |-> ctx.val]
    ELSE Resolved(encs,
                  Walk(iterB, [fn |-> "ResponseEncoder", encs |-> encs],
                       [newEnc |-> "nil", mimeType |-> EmptyType]),
                  Intersect(Aggregate(list), ctx.val, iterA).b)

\* The types an operation may list, with and without a registered encoder, and
\* the entries and weights an Accept header may hold.
ServerTypes == {ApplicationJSON, TextPlain, MkType("text", "json")}
ClientGroups == {Wildcard, "application", "text"}
ClientSubs == {Wildcard, "json", "plain"}
QValues == {5, 10}

\* The graph with the entries and weights of f, a function on (group, sub) pairs.
GraphOf(f) ==
    [g \in {p[1] : p \in DOMAIN f} |->
        [sub \in {p[2] : p \in {e \in DOMAIN f : e[1] = g}} |-> f[<<g, sub>>]]]

\* What mime.RequestTypes can build from an Accept header of a few entries.
ClientGraphs ==
    {GraphOf(f) : f \in UNION {[P -> QValues] :
        P \in {Q \in SUBSET (ClientGroups \X ClientSubs) : Cardinality(Q) <= MaxClientEntries}}}

InitMime ==
    /\ accepts \in SeqsUpTo(ServerTypes, MaxAccepts)
    /\ clientGraph \in {[ok |-> FALSE, val |-> EmptyMap]} \cup {[ok |-> TRUE, val |-> t] : t \in ClientGraphs}
    /\ encoders = DefaultEncoders

\* mime.Intersect(mime.Aggregate(accepts), clientGraph)
IntersectCall ==
    /\ clientGraph.ok
    /\ \E iterA \in ExpandOrders(Aggregate(accepts), clientGraph.val) :
        LET r == Intersect(Aggregate(accepts), clientGraph.val, iterA)
        IN  /\ clientGraph' = [clientGraph EXCEPT !.val = r.b]
            /\ ret' = [op |-> "Intersect", a |-> Aggregate(accepts), b |-> clientGraph.val, g |-> r.g]
    /\ UNCHANGED <<scopes, x, opts, middlewares, registered, accepts, encoders, decoders, header, reqctx, inflight>>

\* clientGraph.Walk(wf), with a wf that returns nil and records its argument,
\* on the graph as mime.RequestTypes built it.
WalkCall ==
    /\ clientGraph.ok
    /\ ret.op \in {"none", "Walk"}
    /\ \E iter \in RangeOrders(clientGraph.val) :
        LET w == Walk(iter, [fn |-> "record"], <<>>)
        IN  ret' = [op |-> "Walk", t |-> clientGraph.val, visited |-> w.st]
    /\ UNCHANGED <<scopes, x, opts, middlewares, registered, accepts, clientGraph, encoders, decoders, header, reqctx, inflight>>

\* encoders.ResponseEncoder(ctx, accepts)
EncodeResponse ==
    /\ \E iterA \in ExpandOrders(Aggregate(accepts), clientGraph.val) :
        \E iterB \in RangeOrders(Candidates(clientGraph, accepts, iterA)) :
            \E r \in {ResponseEncoder(clientGraph, accepts, encoders, iterA, iterB)} :
                /\ clientGraph' = [clientGraph EXCEPT !.val = r.b]
                /\ ret' = [op |-> "ResponseEncoder", ctx |-> clientGraph, types |-> r.types,
                           newEnc |-> r.newEnc, mimeType |-> r.mimeType, err |-> r.err]
    /\ UNCHANGED <<scopes, x, opts, middlewares, registered, accepts, encoders, decoders, header, reqctx, inflight>>

\* ------------------------------------------------------------- negotiation

\* The types an Accept header may name: plain, with a structured suffix, and
\* the global wildcard.
AcceptTypes ==
    {ApplicationJSON, TextPlain, VndJSON, [group |-> "text", parts |-> <<"json", "plain">>],
     [group |-> "text", parts |-> <<"vnd", "json">>], MkType(Wildcard, Wildcard)}

AcceptRanges ==
    {[type |-> t, hasQ |-> FALSE, q |-> One] : t \in AcceptTypes} \cup
    {[type |-> t, hasQ |-> TRUE, q |-> q] : t \in AcceptTypes, q \in QValues \ {One}}

\* A request as the transport hands it over: its Accept header, nothing in the
\* context yet, and the one type or none that the operation lists.
InitNegotiate ==
    /\ header \in SeqsUpTo(AcceptRanges, MaxRanges)
    /\ accepts \in {<<>>} \cup {<<t>> : t \in ServerTypes}
    /\ clientGraph = [ok |-> FALSE, val |-> EmptyMap]
    /\ encoders = DefaultEncoders

\* jennyhttp.PopulateRequestContext: ContextKeyAccepts holds mime.RequestTypes(r).
PopulateRequestContext ==
    /\ clientGraph' = [ok |-> TRUE, val |-> RequestTypes(header)]
    /\ ret' = [op |-> "RequestTypes", g |-> RequestTypes(header)]
    /\ UNCHANGED <<scopes, x, opts, middlewares, registered, accepts, encoders, decoders, header, reqctx, inflight>>

\* ---------------------------------------------------------------- decoders

\* var decoders
DefaultDecoders ==
    [s \in {ApplicationJSON, ApplicationXML, ApplicationFormURLEncoded} |->
        CASE s = ApplicationJSON -> "JSONDecoder"
          [] s = ApplicationXML -> "XMLDecoder"
          [] s = ApplicationFormURLEncoded -> "FormDecoder"]

\* The end of ResponseDecoder, after the walk w over the types sent.
ResponseDecoded(w) ==
    IF w.st = "nil" THEN [dec |-> "nil", err |-> w.err, types |-> w.types]
    ELSE [dec |-> w.st, err |-> NoError, types |-> w.types]

\* decoders.ResponseDecoder, of a response whose Content-Type is h; iter is the
\* slice the walk built from the parsed header.
ResponseDecoder(h, decs, iter) ==
    ResponseDecoded(Walk(iter, [fn |-> "Decoder", decs |-> decs], "nil"))

\* if len(available) < 0 { available = serverAccepts }
AvailableToDecode(serverAccepts, available) ==
    IF Cardinality(DOMAIN available) < 0 THEN serverAccepts ELSE available

\* The graph RequestDecoder walks, for the order iterA of Intersect's walk.
DecodeCandidates(h, list, iterA) ==
    AvailableToDecode(Aggregate(list), Intersect(Aggregate(list), NewTypes(h), iterA).g)

\* The end of RequestDecoder, after the walk w over the candidates.
RequestDecoded(w) ==
    IF w.err # NoError THEN [dec |-> "nil", err |-> w.err, types |-> w.types]
    ELSE IF w.st = "nil"
    THEN [dec |-> "nil", err |-> [kind |-> "coudln't find decoder for", type |-> EmptyType],
          types |-> w.types]
    ELSE [dec |-> w.st, err |-> NoError, types |-> w.types]

\* decoders.RequestDecoder, of a request whose Content-Type is h; iterB is the
\* slice the walk built from the candidates.
RequestDecoder(h, decs, iterB) ==
    RequestDecoded(Walk(iterB, [fn |-> "Decoder", decs |-> decs], "nil"))

\* The types a Content-Type header may name: with and without a registered
\* decoder, with a structured suffix, and with wildcards.
SentTypes ==
    {ApplicationJSON, ApplicationXML, TextPlain, VndJSON,
     MkType(Wildcard, Wildcard), MkType("application", Wildcard)}

\* A media range of a header: a type, and a q parameter or none.
MediaRanges ==
    {[type |-> t, hasQ |-> FALSE, q |-> One] : t \in SentTypes} \cup
    {[type |-> t, hasQ |-> TRUE, q |-> q] : t \in SentTypes, q \in QValues \ {One}}

\* The types an operation may accept in a request body.
AcceptedTypes == {ApplicationJSON, ApplicationXML, TextPlain}

InitDecoders ==
    /\ header \in SeqsUpTo(MediaRanges, MaxRanges)
    /\ accepts \in SeqsUpTo(AcceptedTypes, MaxAccepts)
    /\ decoders = DefaultDecoders

\* decoders.ResponseDecoder(r), r.Header.Get("Content-Type") being header
DecodeResponse ==
    /\ \E iter \in RangeOrders(NewTypes(header)) :
        \E r \in {ResponseDecoder(header, decoders, iter)} :
            ret' = [op |-> "ResponseDecoder", types |-> r.types, dec |-> r.dec, err |-> r.err]
    /\ UNCHANGED <<scopes, x, opts, middlewares, registered, accepts, clientGraph, encoders, decoders, header, reqctx, inflight>>

\* decoders.RequestDecoder(r, accepts), r.Header.Get("Content-Type") being header
DecodeRequest ==
    /\ \E iterA \in ExpandOrders(Aggregate(accepts), NewTypes(header)) :
        \E iterB \in RangeOrders(DecodeCandidates(header, accepts, iterA)) :
            \E r \in {RequestDecoder(header, decoders, iterB)} :
                ret' = [op |-> "RequestDecoder", types |-> r.types, dec |-> r.dec, err |-> r.err]
    /\ UNCHANGED <<scopes, x, opts, middlewares, registered, accepts, clientGraph, encoders, decoders, header, reqctx, inflight>>

\* ---------------------------------------------------------------- registry

\* A registry in which the first registration of a type is final.
RegisterIfAbsent(registry, s, n) == IF s \in DOMAIN registry THEN registry ELSE SetKey(registry, s, n)

\* encoders.Register and decoders.Register: registry[s] = n.
RegisterCodec(registry, s, n) == SetKey(registry, s, n)

\* The types and constructors given to Register, and the types an operation
\* of a service that registers encoders may list.
RegisteredTypes == {ApplicationOctet, VndJSON}
Constructors == {"A", "B"}
ListedTypes == {ApplicationJSON, VndJSON}

\* The Accept entries of the requests to that service: the global and a group
\* wildcard, a type the service lists and one it does not.
ResolveEntries ==
    {<<Wildcard, Wildcard>>, <<"application", Wildcard>>, <<"application", "json">>, <<"text", "plain">>}

ResolveGraphs ==
    {GraphOf(f) : f \in UNION {[P -> QValues] :
        P \in {Q \in SUBSET ResolveEntries : Cardinality(Q) <= MaxClientEntries}}}

InitResolve ==
    /\ accepts \in SeqsUpTo(ListedTypes, MaxAccepts)
    /\ clientGraph \in {[ok |-> TRUE, val |-> t] : t \in ResolveGraphs}
    /\ encoders = DefaultEncoders

\* encoders.Register(s, n); was is the binding of s before the call.
RegisterEncoder ==
    /\ \E s \in RegisteredTypes, n \in Constructors :
        /\ encoders' = RegisterCodec(encoders, s, n)
        /\ ret' = [op |-> "encoders.Register", s |-> s, n |-> n, was |-> Lookup(encoders, s)]
    /\ UNCHANGED <<scopes, x, opts, middlewares, registered, accepts, clientGraph, decoders, header, reqctx, inflight>>

\* The types given to decoders.Register: one with a built-in decoder, one without.
RegisteredDecoderTypes == {ApplicationJSON, VndJSON}

\* decoders.Register(s, d); was is the binding of s before the call.
RegisterDecoder ==
    /\ \E s \in RegisteredDecoderTypes, d \in Constructors :
        /\ decoders' = RegisterCodec(decoders, s, d)
        /\ ret' = [op |-> "decoders.Register", s |-> s, n |-> d, was |-> Lookup(decoders, s)]
    /\ UNCHANGED <<scopes, x, opts, middlewares, registered, accepts, clientGraph, encoders, header, reqctx, inflight>>

\* Both registries as declared, and one message for the calls that read them:
\* the type its operation lists, what the client accepts, and its Content-Type.
InitRegistry ==
    /\ encoders = DefaultEncoders
    /\ decoders = DefaultDecoders
    /\ accepts \in {<<>>} \cup {<<t>> : t \in ListedTypes}
    /\ clientGraph \in {[ok |-> TRUE, val |-> t] : t \in {EmptyMap, Aggregate(<<MkType(Wildcard, Wildcard)>>)}}
    /\ header \in {<<>>, <<[type |-> VndJSON, hasQ |-> FALSE, q |-> One]>>}

\* --------------------------------------------------------------- pipeline

\* The stage RequireScopes(scopes) builds, registered as an extra.
GuardStage == <<"RequireScopes">>

\* The pipeline a service builds for an operation when it starts: the guard is
\* registered for the operation and OpMiddlewares is called once.
Registered(operation) == RegisterMiddleware(EmptyMap, operation, <<GuardStage>>)
Pipeline(m, operation) == OpMiddlewares(m, Registered(operation), operation).mware

\* One stage of the pipeline before the guard, on the context it is handed.
\* env holds what the claims factory makes and what the extractors return.
\* The tracing and error-reporting stages hand on the context they get.
StageStep(name, ctx, env) ==
    CASE name = "JWTToContext" -> JWTToContext(ctx, env.newClaims)
      [] name = "UserToContext" -> UserToContext(ctx, env.user)
      [] name = "ScopesToContext" -> ScopesToContext(ctx, env.scopes)
      [] OTHER -> Pass(ctx)

\* The stages of a chain in turn, each the next of the one before it: what
\* the last of them hands to its next, unless one panics on the way.
RECURSIVE Upstream(_, _, _)
Continue(st, rest, env) == IF st.next = <<>> THEN st ELSE Upstream(rest, st.next[1], env)
Upstream(stages, ctx, env) ==
    IF stages = <<>> THEN Pass(ctx) ELSE Continue(StageStep(Head(stages), ctx, env), Tail(stages), env)

\* The stages of a pipeline entered before the guard.
BeforeGuard(p) == SubSeq(p, 1, (CHOOSE i \in 1..Len(p) : p[i] = "RequireScopes") - 1)

\* The configurations a service is made with: WithJWTParser, WithUserParser
\* and WithScopesParser, each applied or not.
PipelineOptions ==
    {[kf |-> j, sm |-> j, cf |-> j, userFunc |-> u, scopesFunc |-> s] : j, u, s \in BOOLEAN}

\* The context of a request when it enters the pipeline: the token string of
\* its Authorization header, when it has one.
Incoming ==
    {Background} \cup {[Background EXCEPT !.token = [ok |-> TRUE, val |-> ts]] : ts \in TokenStrings}

InitPipeline ==
    /\ opts \in PipelineOptions
    /\ middlewares = OpMiddlewares(opts, Registered("shorten"), "shorten").middlewares
    /\ registered = [o \in Operations |-> IF o = "shorten" THEN <<GuardStage>> ELSE <<>>]
    /\ reqctx \in Incoming

\* What a request that got to the guard records.
Guarded(env, atGuard, r) ==
    [op |-> "Serve", env |-> env, fault |-> FALSE, atGuard |-> <<atGuard>>,
     atHandler |-> IF r.hasAccess THEN <<atGuard>> ELSE <<>>, hasAccess |-> r.hasAccess]

\* One request through the pipeline built for the operation.
Serve ==
    /\ \E newClaims \in ClaimsTypes, user \in UserOutcomes, extracted \in ScopesOutcomes :
        \E env \in {[newClaims |-> newClaims, user |-> user, scopes |-> extracted]} :
        \E up \in {Upstream(BeforeGuard(Pipeline(opts, "shorten")), reqctx, env)} :
            IF up.next = <<>>
            THEN /\ x' = x
                 /\ ret' = [op |-> "Serve", env |-> env, fault |-> up.fault, atGuard |-> <<>>,
                            atHandler |-> <<>>, hasAccess |-> FALSE]
            ELSE \E iter \in Perms(DOMAIN MarkGranted(x, up.next[1].scopes.val)) :
                 \E r \in {GuardEndpoint(x, up.next[1].scopes, iter)} :
                     /\ x' = r.x
                     /\ ret' = Guarded(env, up.next[1], r)
    /\ UNCHANGED <<scopes, opts, middlewares, registered, accepts, clientGraph, encoders, decoders, header, reqctx, inflight>>

\* --------------------------------------------------------- specifications

NoCall == [op |-> "none"]

\* Nothing built, configured or requested in the parts a specification leaves out.
IdleAuth == scopes = <<>> /\ x = NewCheckList(<<>>)
IdleMime == accepts = <<>> /\ clientGraph = [ok |-> FALSE, val |-> EmptyMap] /\ encoders = DefaultEncoders
IdleRequest == decoders = DefaultDecoders /\ header = <<>> /\ reqctx = Background /\ inflight = NoRequests

\* One guard built by RequireScopes, then requests through it.
AuthInit == InitAuth /\ InitOptions /\ IdleMime /\ IdleRequest /\ ret = NoCall
SpecAuth == AuthInit /\ [][Guard]_vars

\* One Options value: configuration, registration and pipeline builds.
NextOptions == WithJWTParser \/ WithUserParser \/ WithScopesParser \/ Register \/ Build
OptionsInit == IdleAuth /\ InitOptions /\ IdleMime /\ IdleRequest /\ ret = NoCall
SpecOptions == OptionsInit /\ [][NextOptions]_vars

\* One request's negotiation inputs, and the calls of package mime on them.
NextMime == IntersectCall \/ WalkCall
MimeInit == IdleAuth /\ InitOptions /\ InitMime /\ IdleRequest /\ ret = NoCall
SpecMime == MimeInit /\ [][NextMime]_vars

\* One request's negotiation inputs, and the calls that resolve an encoder from
\* them: the AcceptsMustMatch middleware, the response encoder and the error
\* encoder all call ResponseEncoder on the same context.
SpecEncoders == MimeInit /\ [][EncodeResponse]_vars

\* A service that registers encoders, and the calls that resolve one.
NextResolve == RegisterEncoder \/ EncodeResponse
ResolveInit == IdleAuth /\ InitOptions /\ InitResolve /\ IdleRequest /\ ret = NoCall
SpecResolve == ResolveInit /\ [][NextResolve]_vars

\* One message with a body: its Content-Type, the types the operation accepts,
\* and the calls that resolve a decoder for it.
NextDecoders == DecodeResponse \/ DecodeRequest
DecodersInit ==
    /\ IdleAuth /\ InitOptions /\ InitDecoders /\ ret = NoCall
    /\ clientGraph = [ok |-> FALSE, val |-> EmptyMap] /\ encoders = DefaultEncoders /\ reqctx = Background
    /\ inflight = NoRequests
SpecDecoders == DecodersInit /\ [][NextDecoders]_vars

\* One request from its Accept header to the encoder of its response.
NextNegotiate == PopulateRequestContext \/ EncodeResponse
NegotiateInit ==
    /\ IdleAuth /\ InitOptions /\ InitNegotiate /\ ret = NoCall
    /\ decoders = DefaultDecoders /\ reqctx = Background
    /\ inflight = NoRequests
SpecNegotiate == NegotiateInit /\ [][NextNegotiate]_vars

\* The two registries: registrations, and the calls that look codecs up.
NextRegistry ==
    RegisterEncoder \/ RegisterDecoder \/ EncodeResponse \/ DecodeResponse \/ DecodeRequest
RegistryInit == IdleAuth /\ InitOptions /\ InitRegistry /\ reqctx = Background /\ ret = NoCall /\ inflight = NoRequests
SpecRegistry == RegistryInit /\ [][NextRegistry]_vars

\* One request at the built-in stages of the pipeline, each on its own.
NextStages == RunJWTToContext \/ RunUserToContext \/ RunScopesToContext \/ RunErrorReporter
StagesInit ==
    /\ IdleAuth /\ InitOptions /\ IdleMime /\ InitStages /\ ret = NoCall
    /\ decoders = DefaultDecoders /\ header = <<>>
    /\ inflight = NoRequests
SpecStages == StagesInit /\ [][NextStages]_vars

\* Requests through a pipeline built with the guard as its extra.
NextPipeline == Serve
PipelineInit ==
    /\ InitAuth /\ InitPipeline /\ IdleMime /\ ret = NoCall
    /\ decoders = DefaultDecoders /\ header = <<>>
    /\ inflight = NoRequests
SpecPipeline == PipelineInit /\ [][NextPipeline]_vars

\* Requests through one guard at the same time, statement by statement.
NextInflight ==
    \E r \in Requests :
        Enter(r) \/ AssignBegin(r) \/ AssignEnd(r) \/ RangeBegin(r) \/ RangeNext(r) \/ RangeEnd(r)
InflightInit ==
    /\ InitInflight /\ InitOptions /\ IdleMime /\ ret = NoCall
    /\ decoders = DefaultDecoders /\ header = <<>> /\ reqctx = Background
SpecInflight == InflightInit /\ [][NextInflight]_vars

\* ------------------------------------------------------------ auth claims

\* The scopes granted to the request of the last guard call.
GrantedSet == IF ret.ctx.ok THEN Range(ret.ctx.val) ELSE {}

\* C1: a request through the guard reaches the next handler if and only if
\* every required scope is among the scopes granted to that request, whatever
\* requests went through the same guard before it.
C1_AcceptsIffRequestGranted ==
    ret.op = "RequireScopes" =>
        /\ ret.hasAccess <=> Range(scopes) \subseteq GrantedSet
        /\ ret.nextCalls = IF Range(scopes) \subseteq GrantedSet THEN 1 ELSE 0

\* C2: a rejection lists exactly the required scopes the request was not
\* granted, each once, in sorted order.
C2_RejectionListsMissingSorted ==
    (ret.op = "RequireScopes" /\ ~ret.hasAccess) =>
        /\ Range(ret.missingScopes) = Range(scopes) \ GrantedSet
        /\ Len(ret.missingScopes) = Cardinality(Range(scopes) \ GrantedSet)
        /\ \A i, j \in 1..Len(ret.missingScopes) :
               i < j => StrCompare(ret.missingScopes[i], ret.missingScopes[j]) < 0

\* --------------------------------------------------------- options claims

Builtins == {"TraceClient", "ErrorReporter", "JWTToContext", "UserToContext", "ScopesToContext"}

IsBuiltin(stage) == stage \in Builtins

\* The built-in stages in the documented order, the optional ones when configured.
DocumentedBuiltins(m) ==
    <<"TraceClient", "ErrorReporter">>
    \o (IF m.kf /\ m.sm /\ m.cf THEN <<"JWTToContext">> ELSE <<>>)
    \o (IF m.userFunc THEN <<"UserToContext">> ELSE <<>>)
    \o (IF m.scopesFunc THEN <<"ScopesToContext">> ELSE <<>>)

\* The stages of a list of middlewares, in the order of the list.
RECURSIVE StagesOf(_)
StagesOf(list) == IF list = <<>> THEN <<>> ELSE Head(list) \o StagesOf(Tail(list))

\* C4: the built-in stages of a built pipeline are entered in the order
\* tracing, error reporting, JWT, user, scopes, the optional ones only when
\* configured.
C4_BuiltinsInDocumentedOrder ==
    ret.op = "OpMiddlewares" => SelectSeq(ret.mware, IsBuiltin) = DocumentedBuiltins(opts)

\* C5: the extras registered for the operation are entered in registration
\* order, after every built-in stage and last before the handler.
C5_ExtrasInRegistrationOrder ==
    ret.op = "OpMiddlewares" =>
        ret.mware = SelectSeq(ret.mware, IsBuiltin) \o StagesOf(registered[ret.operation])

\* C6: with the configuration unchanged, a build of an operation returns the
\* pipeline the build before it returned for that operation, and no build
\* changes the extras held for any operation.
C6_BuildRepeatable ==
    [][ret'.op = "OpMiddlewares" =>
          /\ middlewares' = middlewares
          /\ (ret.op = "OpMiddlewares" /\ ret.operation = ret'.operation) => ret'.mware = ret.mware]_vars

\* ------------------------------------------------------- encoders claims

\* The places, in Walk order, of the candidates with a registered encoder.
RegisteredAt == {i \in 1..Len(ret.types) : ret.types[i] \in DOMAIN encoders}

\* C3: when some candidate has a registered encoder, ResponseEncoder returns
\* without error the earliest such candidate in Walk order; it fails only when
\* no candidate has one.
C3_FirstRegisteredCandidate ==
    (ret.op = "ResponseEncoder" /\ ret.ctx.ok) =>
        /\ RegisteredAt # {} =>
               /\ ret.err = NoError
               /\ ret.mimeType = ret.types[CHOOSE i \in RegisteredAt : \A j \in RegisteredAt : i <= j]
        /\ ret.err # NoError => RegisteredAt = {}

\* ----------------------------------------------------------- mime claims

\* The weight of a visited type in the graph walked.
WeightIn(t, m) == t[Group(m)][SubGroup(m)]

\* The order of the concatenated strings group+subtype: no group name of the
\* model is a prefix of another, so the group decides unless it is the same.
ConcatCompare(m, n) ==
    IF StrCompare(Group(m), Group(n)) # 0 THEN StrCompare(Group(m), Group(n))
    ELSE StrCompare(SubGroup(m), SubGroup(n))

\* C7: without */* in the client graph, an entry of the intersection carries
\* the weight of the client's exact entry, or else of the client's group wildcard.
C7_WeightFromMatchingClientEntry ==
    (ret.op = "Intersect" /\ ~Has(ret.b, Wildcard, Wildcard)) =>
        \A e \in Entries(ret.g) :
            IF Has(ret.b, e[1], e[2]) THEN ret.g[e[1]][e[2]] = ret.b[e[1]][e[2]]
            ELSE Has(ret.b, e[1], Wildcard) /\ ret.g[e[1]][e[2]] = ret.b[e[1]][Wildcard]

\* C8: the intersection holds exactly the server entries for which the client
\* graph has the same entry, the wildcard of the group, or */*.
C8_IntersectMembership ==
    ret.op = "Intersect" =>
        Entries(ret.g) =
            {e \in Entries(ret.a) :
                \/ Has(ret.b, e[1], e[2])
                \/ Has(ret.b, e[1], Wildcard)
                \/ Has(ret.b, Wildcard, Wildcard)}

\* An intersection that kept a server entry through a group wildcard, without
\* */*, and left another server entry out.
C8_Witness ==
    /\ ret.op = "Intersect"
    /\ ~Has(ret.b, Wildcard, Wildcard)
    /\ \E e \in Entries(ret.g) : ~Has(ret.b, e[1], e[2]) /\ Has(ret.b, e[1], Wildcard)
    /\ Entries(ret.a) \ Entries(ret.g) # {}

\* C9: Walk hands the types to its callback in non-increasing weight order.
C9_WalkByDescendingWeight ==
    ret.op = "Walk" =>
        \A i, j \in 1..Len(ret.visited) :
            i < j => WeightIn(ret.t, ret.visited[i]) >= WeightIn(ret.t, ret.visited[j])

\* Entries of equal weight are visited in descending order of group+subtype.
TiesByDescendingString ==
    ret.op = "Walk" =>
        \A i, j \in 1..Len(ret.visited) :
            (i < j /\ WeightIn(ret.t, ret.visited[i]) = WeightIn(ret.t, ret.visited[j]))
                => ConcatCompare(ret.visited[i], ret.visited[j]) > 0

\* C10: the order of a Walk depends on the content of the graph alone: ties in
\* weight are visited in descending order of group+subtype, and a second Walk
\* of the same graph visits the same sequence.
C10_WalkOrderDeterministic ==
    /\ []TiesByDescendingString
    /\ [][(ret.op = "Walk" /\ ret'.op = "Walk" /\ ret'.t = ret.t) => ret'.visited = ret.visited]_vars

\* ------------------------------------------------------- registry claims

\* The intersection computed by the call of ResponseEncoder that ret records.
IntersectionOfCall ==
    Intersect(Aggregate(accepts), ret.ctx.val,
              CHOOSE o \in ExpandOrders(Aggregate(accepts), ret.ctx.val) : TRUE).g

\* The types Walk makes of the entries of a graph.
TypesIn(t) == {MkType(e[1], e[2]) : e \in Entries(t)}

\* C11: when the server graph and the client graph do not intersect, the
\* candidates ResponseEncoder walks are the entries of the aggregated server
\* graph, and when every type of a non-empty server list has a registered
\* encoder the call returns one of the listed types and no error.
C11_FallbackToServerTypes ==
    (ret.op = "ResponseEncoder" /\ ret.ctx.ok /\ IntersectionOfCall = EmptyMap) =>
        /\ Range(ret.types) = TypesIn(Aggregate(accepts))
        /\ (accepts # <<>> /\ \A t \in Range(accepts) : t \in DOMAIN encoders) =>
               (ret.err = NoError /\ ret.mimeType \in Range(accepts))

\* C12: with an empty server list nothing is walked, and for every client
\* graph in the context and every registry that Register calls have made,
\* ResponseEncoder returns application/octet-stream with the encoder bound to
\* it and no error.
C12_EmptyListResolvesToOctet ==
    (ret.op = "ResponseEncoder" /\ ret.ctx.ok /\ accepts = <<>>) =>
        /\ ret.types = <<>>
        /\ ret.mimeType = ApplicationOctet
        /\ ret.newEnc = encoders[ApplicationOctet]
        /\ ret.err = NoError

\* An empty list resolved for a client that accepts anything, after
\* application/octet-stream was registered anew.
C12_Witness ==
    /\ ret.op = "ResponseEncoder" /\ ret.ctx.ok /\ accepts = <<>>
    /\ Has(ret.ctx.val, Wildcard, Wildcard)
    /\ encoders[ApplicationOctet] # DefaultEncoders[ApplicationOctet]
    /\ ret.newEnc = encoders[ApplicationOctet]

\* A step that is a call Register(s, n) on the registry before, leaving after:
\* s is bound to n, every other type keeps its binding, none is removed.
Rebinds(before, after, s, n) ==
    /\ DOMAIN after = DOMAIN before \cup {s}
    /\ after[s] = n
    /\ \A t \in DOMAIN before \ {s} : after[t] = before[t]

\* C16: both registries start with their built-in bindings; a call
\* Register(T, n) binds T to n and leaves every other binding as it was; and
\* no other call changes or removes a binding.  So after any sequence of
\* calls a type is bound to the constructor of its most recent registration,
\* or to its built-in default when it was never registered.
C16_RegistryBindings ==
    /\ encoders = DefaultEncoders /\ decoders = DefaultDecoders
    /\ [][CASE ret'.op = "encoders.Register" ->
                  Rebinds(encoders, encoders', ret'.s, ret'.n) /\ decoders' = decoders
             [] ret'.op = "decoders.Register" ->
                  Rebinds(decoders, decoders', ret'.s, ret'.n) /\ encoders' = encoders
             [] OTHER -> encoders' = encoders /\ decoders' = decoders]_vars

\* A type without a built-in encoder registered a second time, with another
\* constructor, while a built-in decoder binding was replaced earlier.
C16_Witness ==
    /\ ret.op = "encoders.Register" /\ ret.s = VndJSON /\ ret.was = "A" /\ ret.n = "B"
    /\ encoders[VndJSON] = "B"
    /\ encoders[ApplicationJSON] = DefaultEncoders[ApplicationJSON]
    /\ decoders[ApplicationJSON] = "A"
    /\ decoders[ApplicationXML] = DefaultDecoders[ApplicationXML]

\* ------------------------------------------------------- decoders claims

\* The places, in Walk order, of the types sent that have a registered decoder.
DecodableAt == {i \in 1..Len(ret.types) : ret.types[i] \in DOMAIN decoders}

\* C13: ResponseDecoder returns the decoder of the first type of the parsed
\* Content-Type, in Walk order, that has a registered decoder, and no error;
\* when no type has one, as with an empty Content-Type, it returns no decoder
\* and an error.  It never returns a nil decoder with a nil error.
C13_FirstDecodableOrError ==
    ret.op = "ResponseDecoder" =>
        IF DecodableAt # {}
        THEN /\ ret.err = NoError
             /\ ret.dec = decoders[ret.types[CHOOSE i \in DecodableAt : \A j \in DecodableAt : i <= j]]
        ELSE ret.dec = "nil" /\ ret.err # NoError

\* C14: when no entry of the parsed Content-Type is an entry of the aggregated
\* accepted list, RequestDecoder returns an error and no decoder.
C14_UnacceptedContentTypeRejected ==
    (ret.op = "RequestDecoder" /\ Entries(NewTypes(header)) \cap Entries(Aggregate(accepts)) = {}) =>
        (ret.dec = "nil" /\ ret.err # NoError)

\* ---------------------------------------------------- negotiation claims

\* The ranges of the header that name a type with a structured suffix.
SuffixRanges == {i \in 1..Len(header) : Len(header[i].type.parts) > 1}

\* C15: a header of one media range g/a+b parses to the graph whose entries
\* are (g, a) and (g, b), both at the weight of the range, which is 1.0 when
\* the range has no q parameter; and a header naming g/a+b resolves against
\* the server list [g/b] to g/b, with its encoder and no error, when g/b has a
\* registered encoder.
C15_SuffixExplodedAndResolved ==
    /\ (ret.op = "RequestTypes" /\ Len(header) = 1) =>
           /\ Entries(ret.g) = {<<header[1].type.group, p>> : p \in Range(header[1].type.parts)}
           /\ \A e \in Entries(ret.g) :
                  ret.g[e[1]][e[2]] = IF header[1].hasQ THEN header[1].q ELSE One
    /\ (ret.op = "ResponseEncoder" /\ ret.ctx.ok /\ Len(accepts) = 1) =>
           \A i \in SuffixRanges :
               (/\ header[i].type.group = Group(accepts[1])
                /\ SubGroup(accepts[1]) \in Range(header[i].type.parts)
                /\ accepts[1] \in DOMAIN encoders) =>
                   (ret.err = NoError /\ ret.mimeType = accepts[1] /\ ret.newEnc = encoders[accepts[1]])

\* application/vnd+json at weight 0.5 resolved against [application/json].
C15_Witness ==
    /\ ret.op = "ResponseEncoder" /\ ret.ctx.ok
    /\ header = <<[type |-> VndJSON, hasQ |-> TRUE, q |-> 5]>>
    /\ ret.ctx.val = GraphOf([e \in {<<"application", "vnd">>, <<"application", "json">>} |-> 5])
    /\ accepts = <<ApplicationJSON>>
    /\ ret.mimeType = ApplicationJSON

\* ------------------------------------------------------------ stage claims

\* Whether the last call was a user or scopes stage whose extractor was
\* called and returned an error.
ExtractorFailed ==
    /\ ret.op \in {"UserToContext", "ScopesToContext"}
    /\ ret.called
    /\ ~ret.extracted.ok

\* C17: when the extractor of the user stage or of the scopes stage returns
\* an error, the stage calls the next handler exactly once, with the context
\* it was given (so the user or scopes entry is not set by it and every other
\* entry is unchanged), and returns the handler's response and error.
C17_ExtractorsFailOpen ==
    ExtractorFailed =>
        /\ ~ret.fault
        /\ ret.next = <<reqctx>>
        /\ ret.returned = ret.handler

\* A request through the user stage whose extractor was called on claims and
\* failed, and whose handler then returned a response and an error.
C17_Witness ==
    /\ ExtractorFailed
    /\ ret.op = "UserToContext"
    /\ ret.handler.err = "timeout"
    /\ ret.next = <<reqctx>>

\* C19: when the handler inside the error-reporting stage returns an error
\* that is not nil, Report is called exactly once with that error and the
\* operation name, and the stage returns the handler's response and error.
C19_FailureReported ==
    (ret.op = "ErrorReporter" /\ ret.handler.err # "nil") =>
        /\ ret.reports = <<[err |-> ret.handler.err, op |-> ret.operation]>>
        /\ ret.returned = ret.handler

\* C20: for every token string in the request state the JWT stage does not
\* panic: it calls the next handler exactly once, with the claims entry set
\* to the token's claims when the token is valid and with the context it was
\* given otherwise.
C20_JWTStageNeverFaults ==
    (ret.op = "JWTToContext" /\ reqctx.token.ok) =>
        /\ ~ret.fault
        /\ Len(ret.next) = 1
        /\ ret.next[1] = IF ret.parsed.valid THEN [reqctx EXCEPT !.claims = ret.parsed.claims] ELSE reqctx

\* C18: in a pipeline built with the JWT stage and the scopes stage, when the
\* request carries a token that verifies and the scopes extractor succeeds on
\* its claims with result S, the guard and the handler after the scopes stage
\* see the granted scopes S, and a guard whose required scopes are all in S
\* accepts the request.
C18_GuardSeesExtractedScopes ==
    (/\ ret.op = "Serve"
     /\ opts.kf /\ opts.sm /\ opts.cf /\ opts.scopesFunc
     /\ reqctx.token.ok /\ ParseWithClaims(reqctx.token.val, ret.env.newClaims).valid
     /\ ret.env.newClaims = "MapClaims"
     /\ ret.env.scopes.ok) =>
        /\ ~ret.fault
        /\ Len(ret.atGuard) = 1
        /\ ret.atGuard[1].scopes = [ok |-> TRUE, val |-> ret.env.scopes.val]
        /\ Range(scopes) \subseteq Range(ret.env.scopes.val) =>
               (ret.hasAccess /\ ret.atHandler = ret.atGuard)

\* ------------------------------------------------------ frame claims

\* C22: Intersect leaves the client graph it is given unchanged, also when the
\* graph has a */* entry: the client graph held in the request state has the
\* same entries and weights after a call of ResponseEncoder or of
\* RequestDecoder as before it.
C22_ClientGraphUnchanged ==
    [][ret'.op \in {"ResponseEncoder", "RequestDecoder"} => clientGraph' = clientGraph]_vars

\* -------------------------------------------------- concurrency claims

\* The decision a request gets when it runs alone through a guard built for
\* the same required scopes and used by no request before it.
AloneDecision(r) == GuardEndpoint(NewCheckList(scopes), inflight.req[r].ctx, <<>>).hasAccess

\* C21: when requests run at the same time through one guard, in every
\* interleaving the decision of each is the decision it gets alone through a
\* freshly built guard, so a request without a required scope is rejected
\* also while a request that has the scope is in flight.
C21_DecisionAsIfAlone ==
    \A r \in Requests :
        inflight.req[r].pc = "done" => inflight.req[r].accepted = AloneDecision(r)

====
